---- MODULE Spec2Model ----
(***************************************************************************)
(* Dual-view flow editor (src/src/App.tsx).  The file holds two variants   *)
(* of the application: variant A (lines 1-566) and variant B (lines        *)
(* 568-1109).  The model carries the variant as a variable fixed at        *)
(* start-up and follows, per variant, the code of that variant.            *)
(*                                                                         *)
(* React state (nodes, edges, selectedNode) is modelled with every         *)
(* enqueued update already applied; what a render captured is kept         *)
(* separately (cbSelectedNode, the selectedNode the deleteNode callback    *)
(* closed over).  Handlers run to completion; Render runs between them.    *)
(*                                                                         *)
(* Spec follows the store and the selection, which no handler derives     *)
(* from the 3D view's objects; there the objects of the 3D view stand      *)
(* still.  Spec3D follows them as well: the refs of every mounted Node3D,  *)
(* the edge list handed to Edge3D, and the drag gesture in progress.       *)
(*                                                                         *)
(* Scene coordinates are fixed-point: one scene unit is SceneUnit model    *)
(* units, so that x/25, x/50, x/100, 0.5, 0.8 and 0.12 are all integers.   *)
(* Angles are counted in quarter turns (1 = PI/2).                         *)
(***************************************************************************)
EXTENDS Integers, Sequences, FiniteSets, TLC

VARIABLES
    variant,          \* "A" or "B": which DualViewFlow is running
    nodes,            \* useNodesState: sequence of [id, label, position]
    edges,            \* useEdgesState: sequence of [id, source, target]
    selectedNode,     \* useState<string | null>
    cbSelectedNode,   \* selectedNode as captured by deleteNode's useCallback
    dirty,            \* state updates are enqueued and not yet rendered
    lastOp,           \* the last handler that ran: [op, id, error]
    probe,            \* result of the last pure-function evaluation (SpecFn)
    node3d,           \* mounted Node3D components by id: props and refs
    edges3d,          \* edgesWithPositions of the last render
    gesture           \* the 3D drag in progress: [id, frames, seeds]

storeVars == <<nodes, edges, selectedNode, cbSelectedNode, dirty, lastOp>>
viewVars == <<node3d, edges3d, gesture>>
vars == <<variant, nodes, edges, selectedNode, cbSelectedNode, dirty, lastOp, probe,
          node3d, edges3d, gesture>>

----------------------------------------------------------------------------
(* Values *)

NULL == "null"

Variants == {"A", "B"}

SeedIds == {"1", "2", "3"}

\* an id no node ever has
UnknownId == "9"

AllIds == SeedIds \cup {UnknownId}

Pos(px, py) == [x |-> px, y |-> py]

initialNodes ==
    << [id |-> "1", label |-> "Node 1", position |-> Pos(0, 0)],
       [id |-> "2", label |-> "Node 2", position |-> Pos(200, 100)],
       [id |-> "3", label |-> "Node 3", position |-> Pos(-100, 100)] >>

initialEdges ==
    << [id |-> "e1-2", source |-> "1", target |-> "2"],
       [id |-> "e1-3", source |-> "1", target |-> "3"] >>

\* positions handed to updateNodePosition / position changes
PlanarTargets == {Pos(50, 50)}

\* translation part of the matrix PivotControls hands to onDrag, in model
\* units of the scene: (1, -1) under variant A, (0.5, -0.5) under variant B
DragMatrices(v) == IF v = "A" THEN {Pos(100, -100)} ELSE {Pos(50, -50)}

\* the nodes whose gizmo is dragged where the refs of Node3D are followed
DragIds == {"1"}

\* at most this many edges made by connect requests are in the edge list
MaxConnected == 1

\* planar coordinates probed by SpecFn: 50 * (-MaxCoord .. MaxCoord)
MaxCoord == 2

\* at most this many onDrag frames make up one 3D drag gesture
MaxFrames == 2

----------------------------------------------------------------------------
(* Helpers on sequences *)

Ids(seq) == {seq[i].id : i \in DOMAIN seq}

RECURSIVE Filter(_, _)
\* Array.prototype.filter with the predicate given as the set of kept indices
Filter(seq, keep) ==
    IF seq = << >> THEN << >>
    ELSE LET n == Len(seq)
             front == Filter(SubSeq(seq, 1, n - 1), keep)
         IN  IF n \in keep THEN Append(front, seq[n]) ELSE front

Abs(n) == IF n < 0 THEN -n ELSE n

----------------------------------------------------------------------------
(* Graph store: the updaters the handlers hand to setNodes / setEdges *)

\* updateNodePosition without the id test: every node is moved
updateNodePositionAll(nds, id, newPos) ==
    [i \in DOMAIN nds |-> [nds[i] EXCEPT !.position = Pos(newPos.x, newPos.y)]]

\* updateNodePosition's updater: nds.map(node => node.id === id ? {...node, position} : node)
updateNodePosition(nds, id, newPos) ==
    [i \in DOMAIN nds |->
        IF nds[i].id = id
        THEN [nds[i] EXCEPT !.position = Pos(newPos.x, newPos.y)]
        ELSE nds[i]]

\* deleteNode's first updater as a swap-remove: the last node takes the place
\* of the deleted one
deleteNodeNodesSwap(nds, id) ==
    IF id \notin Ids(nds) THEN nds
    ELSE LET k == CHOOSE i \in DOMAIN nds : nds[i].id = id
             n == Len(nds)
         IN  [i \in 1 .. n - 1 |-> IF i = k THEN nds[n] ELSE nds[i]]

\* deleteNode's first updater: nodes.filter(node => node.id !== id)
deleteNodeNodes(nds, id) ==
    Filter(nds, {i \in DOMAIN nds : nds[i].id # id})

\* deleteNode's second updater:
\* edges.filter(edge => edge.source !== id && edge.target !== id)
deleteNodeEdges(eds, id) ==
    Filter(eds, {i \in DOMAIN eds : eds[i].source # id /\ eds[i].target # id})

\* deleteNode's third step: if (selectedNode === id) setSelectedNode(null),
\* where selectedNode is the value the callback closed over (captured) and
\* current is the value the state holds with all enqueued updates applied
deleteNodeSelection(current, captured, id) ==
    IF captured = id THEN NULL ELSE current

\* applyNodeChanges(changes, nds) of @xyflow/react for the change types the
\* 2D view issues here: an element with a "remove" change is dropped; the
\* "position" changes of an element are applied in list order
RECURSIVE applyPositionChanges(_, _)
applyPositionChanges(node, changes) ==
    IF changes = << >> THEN node
    ELSE LET c == Head(changes)
             next == IF c.type = "position" /\ c.id = node.id
                     THEN [node EXCEPT !.position = c.position]
                     ELSE node
         IN  applyPositionChanges(next, Tail(changes))

applyNodeChanges(changes, nds) ==
    LET removed == {changes[k].id : k \in {j \in DOMAIN changes : changes[j].type = "remove"}}
        kept == Filter(nds, {i \in DOMAIN nds : nds[i].id \notin removed})
    IN  [i \in DOMAIN kept |-> applyPositionChanges(kept[i], changes)]

\* applyEdgeChanges(changes, eds) of @xyflow/react for "remove" changes
applyEdgeChanges(changes, eds) ==
    LET removed == {changes[k].id : k \in {j \in DOMAIN changes : changes[j].type = "remove"}}
    IN  Filter(eds, {i \in DOMAIN eds : eds[i].id \notin removed})

\* getEdgeId of @xyflow/react: `xy-edge__${source}-${target}` (no handles)
getEdgeId(source, target) == "xy-edge__" \o source \o "-" \o target

\* connectionExists of @xyflow/react: an edge with this source and target
connectionExists(source, target, eds) ==
    \E i \in DOMAIN eds : eds[i].source = source /\ eds[i].target = target

\* addEdge(connection, eds) of @xyflow/react: a connection lacking a source
\* or a target, or one that exists already, returns eds; otherwise the edge
\* is appended.  The node list is not consulted.
addEdge(connection, eds) ==
    IF connection.source = NULL \/ connection.target = NULL
    THEN eds
    ELSE IF connectionExists(connection.source, connection.target, eds)
    THEN eds
    ELSE Append(eds, [id |-> getEdgeId(connection.source, connection.target),
                      source |-> connection.source,
                      target |-> connection.target])

----------------------------------------------------------------------------
(* Coordinates: Node3D and Edge3D *)

\* model units per scene unit
SceneUnit == 100

\* Node3D divides planar coordinates by this to place its group
NodeDivisorA == 50

NodeDivisorB == 100

\* Node3D.handleTransformChange multiplies the dragged scene position by this
PlanarFactorA == 50

PlanarFactorB == 100

\* Edge3D divides planar coordinates by this
EdgeDivisorA == 25

EdgeDivisorB == 50

NodeDivisor(v) == IF v = "A" THEN NodeDivisorA ELSE NodeDivisorB

PlanarFactor(v) == IF v = "A" THEN PlanarFactorA ELSE PlanarFactorB

EdgeDivisor(v) == IF v = "A" THEN EdgeDivisorA ELSE EdgeDivisorB

\* Node3D useEffect: groupRef.current.position = (position.x / d, -position.y / d)
toScene(v, position) ==
    Pos((position.x * SceneUnit) \div NodeDivisor(v),
        (-position.y * SceneUnit) \div NodeDivisor(v))

\* handleTransformChange with the Y flip left out
toPlanarNoFlip(v, scene) ==
    Pos((scene.x * PlanarFactor(v)) \div SceneUnit,
        (scene.y * PlanarFactor(v)) \div SceneUnit)

\* Node3D.handleTransformChange: { x: position.x * f, y: -position.y * f }
toPlanar(v, scene) ==
    Pos((scene.x * PlanarFactor(v)) \div SceneUnit,
        (-scene.y * PlanarFactor(v)) \div SceneUnit)

\* Math.atan2(dy, dx) in quarter turns, for a direction along an axis
\* (atan2(0, 0) is 0); 9 stands for any direction off the axes
Atan2Quarter(dy, dx) ==
    CASE dy = 0 /\ dx >= 0 -> 0
      [] dx = 0 /\ dy > 0  -> 1
      [] dy = 0 /\ dx < 0  -> 2
      [] dx = 0 /\ dy < 0  -> -1
      [] OTHER             -> 9

\* Edge3D of variant A: six points, arrow rotation fixed at Math.PI
Edge3DA(sourcePosition, targetPosition) ==
    LET startPoint == Pos((sourcePosition.x * SceneUnit) \div EdgeDivisorA,
                          (-sourcePosition.y * SceneUnit) \div EdgeDivisorA)
        endPoint == Pos((targetPosition.x * SceneUnit) \div EdgeDivisorA,
                        (-targetPosition.y * SceneUnit) \div EdgeDivisorA + (5 * SceneUnit) \div 10)
        firstPivot == Pos(startPoint.x, startPoint.y - (8 * SceneUnit) \div 10)
        lastPivot == Pos(endPoint.x, endPoint.y + (8 * SceneUnit) \div 10)
        xAxisDistance == lastPivot.x - firstPivot.x
        mid1 == Pos(xAxisDistance \div 2, firstPivot.y)
        mid2 == Pos(xAxisDistance \div 2, lastPivot.y)
    IN  [points |-> <<startPoint, firstPivot, mid1, mid2, lastPivot, endPoint>>,
         angle |-> 2,
         arrow |-> Pos(endPoint.x, endPoint.y + (12 * SceneUnit) \div 100)]

\* Edge3D of variant B with the bend test turned into >=
Edge3DBTie(sourcePosition, targetPosition) ==
    LET startPoint == Pos((sourcePosition.x * SceneUnit) \div EdgeDivisorB,
                          (-sourcePosition.y * SceneUnit) \div EdgeDivisorB)
        endPoint == Pos((targetPosition.x * SceneUnit) \div EdgeDivisorB,
                        (-targetPosition.y * SceneUnit) \div EdgeDivisorB)
        xAxisDistance == Abs(endPoint.x - startPoint.x)
        yAxisDistance == Abs(endPoint.y - startPoint.y)
        mid == Pos(IF xAxisDistance >= yAxisDistance THEN endPoint.x ELSE startPoint.x,
                   IF xAxisDistance >= yAxisDistance THEN startPoint.y ELSE endPoint.y)
    IN  [points |-> <<startPoint, mid, endPoint>>,
         angle |-> Atan2Quarter(endPoint.y - mid.y, endPoint.x - mid.x) + 1,
         arrow |-> Pos(endPoint.x, endPoint.y)]

\* Edge3D of variant B with the elbow put halfway between start and end
Edge3DBStraight(sourcePosition, targetPosition) ==
    LET startPoint == Pos((sourcePosition.x * SceneUnit) \div EdgeDivisorB,
                          (-sourcePosition.y * SceneUnit) \div EdgeDivisorB)
        endPoint == Pos((targetPosition.x * SceneUnit) \div EdgeDivisorB,
                        (-targetPosition.y * SceneUnit) \div EdgeDivisorB)
        mid == Pos((startPoint.x + endPoint.x) \div 2, (startPoint.y + endPoint.y) \div 2)
    IN  [points |-> <<startPoint, mid, endPoint>>,
         angle |-> Atan2Quarter(endPoint.y - mid.y, endPoint.x - mid.x) + 1,
         arrow |-> Pos(endPoint.x, endPoint.y)]

\* Edge3D of variant B: start, mid, end; the arrow is turned along mid -> end
Edge3DB(sourcePosition, targetPosition) ==
    LET startPoint == Pos((sourcePosition.x * SceneUnit) \div EdgeDivisorB,
                          (-sourcePosition.y * SceneUnit) \div EdgeDivisorB)
        endPoint == Pos((targetPosition.x * SceneUnit) \div EdgeDivisorB,
                        (-targetPosition.y * SceneUnit) \div EdgeDivisorB)
        xAxisDistance == Abs(endPoint.x - startPoint.x)
        yAxisDistance == Abs(endPoint.y - startPoint.y)
        mid == Pos(IF xAxisDistance > yAxisDistance THEN endPoint.x ELSE startPoint.x,
                   IF xAxisDistance > yAxisDistance THEN startPoint.y ELSE endPoint.y)
    IN  [points |-> <<startPoint, mid, endPoint>>,
         angle |-> Atan2Quarter(endPoint.y - mid.y, endPoint.x - mid.x) + 1,
         arrow |-> Pos(endPoint.x, endPoint.y)]

Edge3D(v, sourcePosition, targetPosition) ==
    IF v = "A" THEN Edge3DA(sourcePosition, targetPosition)
    ELSE Edge3DB(sourcePosition, targetPosition)

----------------------------------------------------------------------------
(* The 3D view: what DualViewFlow hands to Edge3D, and the refs of Node3D *)

\* the position of nodes.find(n => n.id === id), or { x: 0, y: 0 } when
\* find returns undefined: node?.position || { x: 0, y: 0 }
positionOrOrigin(nds, id) ==
    IF \E i \in DOMAIN nds : nds[i].id = id
    THEN LET first == CHOOSE i \in DOMAIN nds :
                          /\ nds[i].id = id
                          /\ \A j \in DOMAIN nds : nds[j].id = id => i <= j
         IN  nds[first].position
    ELSE Pos(0, 0)

\* edgesWithPositions with the edges that miss a node left out
edgesWithPositionsKnown(eds, nds) ==
    LET known == Filter(eds, {i \in DOMAIN eds :
                                  eds[i].source \in Ids(nds) /\ eds[i].target \in Ids(nds)})
    IN  [i \in DOMAIN known |->
            [id |-> known[i].id, source |-> known[i].source, target |-> known[i].target,
             sourcePosition |-> positionOrOrigin(nds, known[i].source),
             targetPosition |-> positionOrOrigin(nds, known[i].target)]]

\* edgesWithPositions: edges.map(edge => ({...edge, sourcePosition, targetPosition}))
edgesWithPositions(eds, nds) ==
    [i \in DOMAIN eds |->
        [id |-> eds[i].id, source |-> eds[i].source, target |-> eds[i].target,
         sourcePosition |-> positionOrOrigin(nds, eds[i].source),
         targetPosition |-> positionOrOrigin(nds, eds[i].target)]]

\* Node3D's first render and the effect after it.  Variant A keeps
\* initialPositionRef and isDraggingRef and hands PivotControls a matrix made
\* of initialPositionRef.current; variant B has the group only.
Node3DMount(v, position) ==
    IF v = "A"
    THEN [position |-> position,
          groupPos |-> toScene(v, position),
          initialPositionRef |-> toScene(v, position),
          isDraggingRef |-> FALSE,
          matrix |-> toScene(v, position)]
    ELSE [position |-> position,
          groupPos |-> toScene(v, position)]

\* Node3D with useEffect(..., []): the effect runs after the first render only
Node3DEffectOnce(v, n, position) ==
    IF v = "A"
    THEN [n EXCEPT !.position = position, !.matrix = n.initialPositionRef]
    ELSE [n EXCEPT !.position = position]

\* a later render of a mounted Node3D with the prop position: the matrix prop
\* is made of initialPositionRef.current as the render finds it; then, if
\* position.x or position.y differs from the previous render's, the effect
\* sets the group's position (variant A: and initialPositionRef, and resets
\* isDraggingRef)
Node3D(v, n, position) ==
    LET rendered == IF v = "A"
                    THEN [n EXCEPT !.position = position, !.matrix = n.initialPositionRef]
                    ELSE [n EXCEPT !.position = position]
    IN  IF position = n.position THEN rendered
        ELSE IF v = "A"
             THEN [rendered EXCEPT !.groupPos = toScene(v, position),
                                   !.initialPositionRef = toScene(v, position),
                                   !.isDraggingRef = FALSE]
             ELSE [rendered EXCEPT !.groupPos = toScene(v, position)]

\* what handleTransformChange does to the refs of its Node3D.  Variant A, on
\* a frame that finds isDraggingRef false: sets it and copies
\* initialPositionRef into the group's position.  Variant B: nothing.
handleTransformChange(v, n) ==
    IF v = "A" /\ ~n.isDraggingRef
    THEN [n EXCEPT !.isDraggingRef = TRUE, !.groupPos = n.initialPositionRef]
    ELSE n

NoGesture == [id |-> NULL, frames |-> 0, seeds |-> 0]

----------------------------------------------------------------------------
(* The application: DualViewFlow and the handlers of its two views *)

Op(name, id) == [op |-> name, id |-> id, error |-> "none"]

Init ==
    /\ variant \in Variants
    /\ nodes = initialNodes
    /\ edges = initialEdges
    /\ selectedNode = NULL
    /\ cbSelectedNode = NULL
    /\ dirty = FALSE
    /\ lastOp = Op("init", NULL)
    /\ probe = [kind |-> "none"]
    /\ node3d = [id \in Ids(initialNodes) |->
                    Node3DMount(variant, positionOrOrigin(initialNodes, id))]
    /\ edges3d = edgesWithPositions(initialEdges, initialNodes)
    /\ gesture = NoGesture

\* CustomNode.handleNodeClick, ReactFlow onNodeClick, Node3D.handleNodeClick:
\* setSelectedNode(id) for a node that is on screen
NodeClick(id) ==
    /\ id \in Ids(nodes)
    /\ selectedNode' = id
    /\ dirty' = TRUE
    /\ lastOp' = Op("select", id)
    /\ UNCHANGED <<variant, nodes, edges, cbSelectedNode, probe, viewVars>>

\* ReactFlow onPaneClick: setSelectedNode(null)
PaneClick ==
    /\ selectedNode' = NULL
    /\ dirty' = TRUE
    /\ lastOp' = Op("clear", NULL)
    /\ UNCHANGED <<variant, nodes, edges, cbSelectedNode, probe, viewVars>>

\* the context's updateNodePosition(id, newPos), called with any id
MoveNode(id, newPos) ==
    /\ nodes' = updateNodePosition(nodes, id, newPos)
    /\ dirty' = TRUE
    /\ lastOp' = Op("move", id)
    /\ UNCHANGED <<variant, edges, selectedNode, cbSelectedNode, probe, viewVars>>

\* Node3D's PivotControls onDrag: handleTransformChange(matrix), which needs
\* the group to be mounted, then setSelectedNode(id)
DragFrame(id, matrix) ==
    /\ id \in Ids(nodes)
    /\ nodes' = updateNodePosition(nodes, id, toPlanar(variant, matrix))
    /\ selectedNode' = id
    /\ dirty' = TRUE
    /\ lastOp' = Op("drag", id)
    /\ UNCHANGED <<variant, edges, cbSelectedNode, probe, viewVars>>

\* the context's deleteNode(id): handleDeleteNode of CustomNode and Node3D
DeleteNode(id) ==
    /\ nodes' = deleteNodeNodes(nodes, id)
    /\ edges' = deleteNodeEdges(edges, id)
    /\ selectedNode' = deleteNodeSelection(selectedNode, cbSelectedNode, id)
    /\ dirty' = TRUE
    /\ lastOp' = Op("delete", id)
    /\ UNCHANGED <<variant, cbSelectedNode, probe, viewVars>>

\* change lists the 2D view issues for the nodes on screen
NodeChangeLists ==
    {<<[type |-> "remove", id |-> id]>> : id \in Ids(nodes)}
    \cup {<<[type |-> "position", id |-> id, position |-> p]>> :
              id \in Ids(nodes), p \in PlanarTargets}
    \cup {<<[type |-> "position", id |-> id, position |-> p],
            [type |-> "remove", id |-> id]>> : id \in {"3"} \cap Ids(nodes), p \in PlanarTargets}

\* onNodesChange(changes): setNodes(nds => applyNodeChanges(changes, nds))
OnNodesChange(changes) ==
    /\ nodes' = applyNodeChanges(changes, nodes)
    /\ dirty' = TRUE
    /\ lastOp' = Op("nodesChange", NULL)
    /\ UNCHANGED <<variant, edges, selectedNode, cbSelectedNode, probe, viewVars>>

\* onEdgesChange(changes): setEdges(eds => applyEdgeChanges(changes, eds))
OnEdgesChange(changes) ==
    /\ edges' = applyEdgeChanges(changes, edges)
    /\ dirty' = TRUE
    /\ lastOp' = Op("edgesChange", NULL)
    /\ UNCHANGED <<variant, nodes, selectedNode, cbSelectedNode, probe, viewVars>>

\* connect requests: a duplicate of a seed edge, a new edge between nodes,
\* an unknown source, an unknown target, a missing source
ConnectRequests ==
    { [source |-> "1", target |-> "2"],
      [source |-> "2", target |-> "3"],
      [source |-> UnknownId, target |-> "2"],
      [source |-> "2", target |-> UnknownId],
      [source |-> NULL, target |-> "2"] }

\* a connect gesture.  Variant B: onConnect(connection) does
\* setEdges(eds => addEdge(connection, eds)).  Variant A passes ReactFlow no
\* onConnect, so the request is dropped.
OnConnect(connection) ==
    /\ Cardinality({i \in DOMAIN edges : edges[i].id \notin Ids(initialEdges)}) < MaxConnected
    /\ edges' = IF variant = "B" THEN addEdge(connection, edges) ELSE edges
    /\ dirty' = (dirty \/ variant = "B")
    /\ lastOp' = Op("connect", NULL)
    /\ UNCHANGED <<variant, nodes, selectedNode, cbSelectedNode, probe, viewVars>>

\* DualViewFlow renders with the state as it is now: the deleteNode callback
\* is rebuilt over the current selectedNode
Render ==
    /\ dirty
    /\ cbSelectedNode' = selectedNode
    /\ dirty' = FALSE
    /\ UNCHANGED <<variant, nodes, edges, selectedNode, lastOp, probe, viewVars>>

Next ==
    \/ \E id \in SeedIds : NodeClick(id)
    \/ PaneClick
    \/ \E id \in AllIds, p \in PlanarTargets : MoveNode(id, p)
    \/ \E id \in SeedIds, m \in DragMatrices(variant) : DragFrame(id, m)
    \/ \E id \in AllIds : DeleteNode(id)
    \/ \E changes \in NodeChangeLists : OnNodesChange(changes)
    \/ \E i \in DOMAIN edges : OnEdgesChange(<<[type |-> "remove", id |-> edges[i].id]>>)
    \/ \E c \in ConnectRequests : OnConnect(c)
    \/ Render

Spec == Init /\ [][Next]_vars

----------------------------------------------------------------------------
(* The application with the objects of its 3D view *)

\* one frame of a PivotControls drag on a mounted Node3D: onDrag runs
\* handleTransformChange(matrix), then setSelectedNode(id)
Drag3D(id, matrix) ==
    /\ id \in DOMAIN node3d
    /\ gesture.id \in {NULL, id}
    /\ gesture.frames < MaxFrames
    /\ node3d' = [node3d EXCEPT ![id] = handleTransformChange(variant, @)]
    /\ gesture' = [id |-> id,
                   frames |-> gesture.frames + 1,
                   seeds |-> IF node3d'[id] = node3d[id]
                             THEN gesture.seeds ELSE gesture.seeds + 1]
    /\ nodes' = updateNodePosition(nodes, id, toPlanar(variant, matrix))
    /\ selectedNode' = id
    /\ dirty' = TRUE
    /\ lastOp' = Op("drag", id)
    /\ UNCHANGED <<variant, edges, cbSelectedNode, probe, edges3d>>

\* the user lets go of the gizmo; PivotControls is given no onDragEnd
DragEnd ==
    /\ gesture.id # NULL
    /\ gesture' = NoGesture
    /\ UNCHANGED <<variant, storeVars, probe, node3d, edges3d>>

\* DualViewFlow renders: the deleteNode callback is rebuilt, edgesWithPositions
\* is computed, one Node3D is rendered per node (mounted by key, or mounted
\* now), the others are unmounted, and the effects run
Render3D ==
    /\ dirty
    /\ cbSelectedNode' = selectedNode
    /\ dirty' = FALSE
    /\ edges3d' = edgesWithPositions(edges, nodes)
    /\ node3d' = [id \in Ids(nodes) |->
                     IF id \in DOMAIN node3d
                     THEN Node3D(variant, node3d[id], positionOrOrigin(nodes, id))
                     ELSE Node3DMount(variant, positionOrOrigin(nodes, id))]
    /\ UNCHANGED <<variant, nodes, edges, selectedNode, lastOp, probe, gesture>>

Next3D ==
    \/ \E id \in SeedIds, p \in PlanarTargets : MoveNode(id, p)
    \/ \E id \in DragIds, m \in DragMatrices(variant) : Drag3D(id, m)
    \/ DragEnd
    \/ \E id \in SeedIds : DeleteNode(id)
    \/ \E id \in Ids(nodes) : OnNodesChange(<<[type |-> "remove", id |-> id]>>)
    \/ Render3D

Spec3D == Init /\ [][Next3D]_vars

----------------------------------------------------------------------------
(* Pure functions evaluated over a grid of planar positions *)

Coords == {50 * k : k \in -MaxCoord .. MaxCoord}

PlanarGrid == {Pos(px, py) : px \in Coords, py \in Coords}

\* Node3D places a node at p, and a drag frame reports that very scene position
ProbeMapper(p) ==
    /\ probe.kind = "none"
    /\ probe' = [kind |-> "mapper",
                 position |-> p,
                 scene |-> toScene(variant, p),
                 planar |-> toPlanar(variant, toScene(variant, p))]
    /\ UNCHANGED <<variant, storeVars, viewVars>>

\* one render of an edge whose endpoints sit at sp and tp: where Node3D puts
\* the two nodes, and what Edge3D draws
ProbeRouter(sp, tp) ==
    /\ probe.kind = "none"
    /\ probe' = [kind |-> "router",
                 sourcePosition |-> sp,
                 targetPosition |-> tp,
                 sourceScene |-> toScene(variant, sp),
                 targetScene |-> toScene(variant, tp),
                 edge |-> Edge3D(variant, sp, tp)]
    /\ UNCHANGED <<variant, storeVars, viewVars>>

NextFn ==
    \/ \E p \in PlanarGrid : ProbeMapper(p)
    \/ \E sp \in PlanarGrid, tp \in PlanarGrid : ProbeRouter(sp, tp)

SpecFn == Init /\ [][NextFn]_vars

----------------------------------------------------------------------------
(* Properties of the graph store and the selection *)

Incident(eds, id) == {i \in DOMAIN eds : eds[i].source = id \/ eds[i].target = id}

\* C1: every edge in the store has a source and a target that are ids of
\* nodes in the store, in every reachable state.
EdgeIntegrity ==
    \A i \in DOMAIN edges :
        edges[i].source \in Ids(nodes) /\ edges[i].target \in Ids(nodes)

\* C2: selectedNode is null or the id of a node in the node list, in every
\* reachable state.
SelectionValid ==
    selectedNode = NULL \/ selectedNode \in Ids(nodes)

\* C3: when the selection is id (the last selection event was
\* setSelectedNode(id)) and deleteNode(id) runs, the selection becomes null,
\* whether or not a render came between the two calls.
SelectThenDeleteClears ==
    [][\A id \in SeedIds :
          (selectedNode = id /\ DeleteNode(id)) => selectedNode' = NULL]_vars

\* the list seq without its elements at the indices in gone, order kept
Without(seq, gone, after) ==
    /\ Len(after) = Len(seq) - Cardinality(gone)
    /\ \A i \in DOMAIN seq \ gone :
          after[i - Cardinality({j \in gone : j < i})] = seq[i]

\* C4: deleteNode(id) of a node in the store removes exactly that node and
\* exactly the edges incident to it, leaves the rest as it was, and leaves
\* the selection alone unless id is the selected node; for an id not in the
\* store nothing changes.
DeleteNodePost ==
    [][\A id \in AllIds :
          DeleteNode(id) =>
              IF id \in Ids(nodes)
              THEN /\ Without(nodes, {i \in DOMAIN nodes : nodes[i].id = id}, nodes')
                   /\ Without(edges, Incident(edges, id), edges')
                   /\ selectedNode # id => selectedNode' = selectedNode
              ELSE UNCHANGED <<nodes, edges, selectedNode>>]_vars

\* C5: a render that follows deleteNode(id) never sees node id gone with an
\* edge of id still in the edge list, or with selectedNode still id.
RenderSeesWholeDelete ==
    [][(Render /\ lastOp.op = "delete" /\ lastOp.id \notin Ids(nodes)) =>
          /\ Incident(edges, lastOp.id) = {}
          /\ selectedNode # lastOp.id]_vars

\* C6: a connect request with an endpoint that is no node adds no edge and
\* signals InvalidEndpoint; one with both endpoints in the store appends
\* exactly one edge.  (Stated of variant B, the variant with an onConnect.)
ConnectPost ==
    [][\A c \in ConnectRequests :
          (variant = "B" /\ OnConnect(c)) =>
              IF c.source \in Ids(nodes) /\ c.target \in Ids(nodes)
              THEN /\ Len(edges') = Len(edges) + 1
                   /\ SubSeq(edges', 1, Len(edges)) = edges
                   /\ edges'[Len(edges')].source = c.source
                   /\ edges'[Len(edges')].target = c.target
              ELSE /\ edges' = edges
                   /\ lastOp'.error = "InvalidEndpoint"]_vars

\* what updateNodePosition(id, p) may change: the position of node id, to p
MovePost(id, p) ==
    /\ Len(nodes') = Len(nodes)
    /\ edges' = edges
    /\ \A i \in DOMAIN nodes :
          /\ nodes'[i].id = nodes[i].id
          /\ nodes'[i].label = nodes[i].label
          /\ nodes'[i].position = IF nodes[i].id = id THEN p ELSE nodes[i].position
    /\ id \notin Ids(nodes) => nodes' = nodes

\* C7: updateNodePosition(id, p) sets the position of node id to p and
\* leaves its id and label, the other nodes, the edge list and the node
\* count as they were; for an unknown id nothing changes.  (Only handler
\* steps that record a move or a drag are steps of updateNodePosition.)
MoveFrame ==
    [][(dirty' /\ lastOp'.op \in {"move", "drag"}) =>
          /\ \A id \in AllIds, p \in PlanarTargets : MoveNode(id, p) => MovePost(id, p)
          /\ \A id \in SeedIds, m \in DragMatrices(variant) :
                DragFrame(id, m) => MovePost(id, toPlanar(variant, m))]_vars

\* node 1 was moved to (50, 50) while nodes 2 and 3 and both edges stayed
MoveFrameWitness ==
    /\ lastOp = Op("move", "1")
    /\ Len(nodes) = 3
    /\ nodes[1].position = Pos(50, 50)
    /\ nodes[2] = initialNodes[2]
    /\ nodes[3] = initialNodes[3]
    /\ edges = initialEdges

----------------------------------------------------------------------------
(* Properties of the coordinate mapping and of the 3D edge router *)

\* C8: the position Node3D writes back after a drag to the very place it
\* put the node, toPlanar(toScene(p)), is p: both directions use one divisor
\* and one Y flip.
MapperInverse ==
    probe.kind = "mapper" => probe.planar = probe.position

\* a position off both axes went to the scene, its Y flipped, and came back
MapperInverseWitness ==
    /\ probe.kind = "mapper"
    /\ probe.position = Pos(100, 50)
    /\ probe.scene.x > 0
    /\ probe.scene.y < 0
    /\ probe.planar = Pos(100, 50)

\* C9: the start point of the drawn edge is the scene position at which
\* Node3D places the source node, and its end point the scene position of
\* the target node.
RouterEndsOnNodes ==
    probe.kind = "router" =>
        /\ probe.edge.points[1] = probe.sourceScene
        /\ probe.edge.points[Len(probe.edge.points)] = probe.targetScene

\* the bend rule on a drawn path: three points, the elbow at (end.x, start.y)
\* when |dx| > |dy| and at (start.x, end.y) otherwise, and the arrow's
\* rotation a quarter turn past the direction of the segment elbow -> end
BendRule(e) ==
    /\ Len(e.points) = 3
    /\ LET start == e.points[1]
           elbow == e.points[2]
           end == e.points[3]
           dx == Abs(end.x - start.x)
           dy == Abs(end.y - start.y)
       IN  /\ dx > dy => elbow = Pos(end.x, start.y)
           /\ dx <= dy => elbow = Pos(start.x, end.y)
           /\ (end.x > elbow.x /\ end.y = elbow.y) => e.angle = 1
           /\ (end.x = elbow.x /\ end.y > elbow.y) => e.angle = 2
           /\ (end.x < elbow.x /\ end.y = elbow.y) => e.angle = 3
           /\ (end.x = elbow.x /\ end.y < elbow.y) => e.angle = 0

\* C10 as stated: every drawn edge follows the bend rule.
BendRuleEveryVariant ==
    probe.kind = "router" => BendRule(probe.edge)

\* C10 as amended: variant B follows the bend rule; variant A draws six
\* points (start, start lowered by 0.8, two points at x = xAxisDistance / 2,
\* end raised by 0.8, end) and turns its arrow by PI whatever the path.
BendRuleVariantB ==
    probe.kind = "router" =>
        IF variant = "B"
        THEN BendRule(probe.edge)
        ELSE LET pts == probe.edge.points
             IN  /\ Len(pts) = 6
                 /\ pts[2] = Pos(pts[1].x, pts[1].y - (8 * SceneUnit) \div 10)
                 /\ pts[5] = Pos(pts[6].x, pts[6].y + (8 * SceneUnit) \div 10)
                 /\ pts[3] = Pos((pts[6].x - pts[1].x) \div 2, pts[2].y)
                 /\ pts[4] = Pos((pts[6].x - pts[1].x) \div 2, pts[5].y)
                 /\ probe.edge.angle = 2

\* variant B drew an edge whose deltas tie, so it went vertical first, and
\* whose last segment runs along -x
BendRuleWitness ==
    /\ probe.kind = "router"
    /\ variant = "B"
    /\ probe.sourcePosition = Pos(0, 0)
    /\ probe.targetPosition = Pos(-100, 100)
    /\ probe.edge.points[2] = Pos(0, -200)
    /\ probe.edge.angle = 3

CoincidentAllZero ==
    (probe.kind = "router" /\ probe.sourcePosition = probe.targetPosition) =>
        \A i \in DOMAIN probe.edge.points : probe.edge.points[i] = probe.edge.points[1]

----------------------------------------------------------------------------
(* Properties of list order, the 3D view and the edge snapshot *)

IdSeq(seq) == [i \in DOMAIN seq |-> seq[i].id]

RECURSIVE IsSubsequence(_, _)
\* a can be had from b by dropping elements of b
IsSubsequence(a, b) ==
    IF a = << >> THEN TRUE
    ELSE IF b = << >> THEN FALSE
    ELSE IF Head(a) = Head(b) THEN IsSubsequence(Tail(a), Tail(b))
    ELSE IsSubsequence(a, Tail(b))

\* C13: every updateNodePosition and every deleteNode leaves the ids of the
\* node list a subsequence of the ids it had before, in the same relative
\* order, and the ids of the edge list likewise; so does any sequence of
\* them.  (The steps of the two operations are the handler steps that record
\* a move, a drag or a delete.)
OrderPreserved ==
    [][(dirty' /\ lastOp'.op \in {"move", "drag", "delete"}) =>
          /\ IsSubsequence(IdSeq(nodes'), IdSeq(nodes))
          /\ IsSubsequence(IdSeq(edges'), IdSeq(edges))]_vars

\* node 1 was deleted after node 3 had been moved: nodes 2 and 3 are left in
\* that order, and no edge
OrderPreservedWitness ==
    /\ lastOp = Op("delete", "1")
    /\ IdSeq(nodes) = <<"2", "3">>
    /\ nodes[2].position = Pos(50, 50)
    /\ edges = << >>

\* C14: at every render of the 3D view, with no update left to render, the
\* position of the group of every node, and in variant A the matrix handed
\* to PivotControls, is toScene of the node's planar position in the store.
SceneNeverStale ==
    ~dirty =>
        \A i \in DOMAIN nodes :
            /\ nodes[i].id \in DOMAIN node3d
            /\ node3d[nodes[i].id].groupPos = toScene(variant, nodes[i].position)
            /\ variant = "A" =>
                   node3d[nodes[i].id].matrix = toScene(variant, nodes[i].position)

\* C15: while a 3D drag of a mounted node goes on in variant A, the group's
\* position has been seeded once, on the first frame, and isDraggingRef is
\* true, whatever has been rendered since the first frame.
SeedOncePerDrag ==
    (variant = "A" /\ gesture.id # NULL /\ gesture.id \in DOMAIN node3d) =>
        /\ gesture.seeds = 1
        /\ node3d[gesture.id].isDraggingRef

\* a handler changed the node list by one store operation at most: nothing,
\* the position of one node, or the removal of one node
OneMutation ==
    \/ nodes' = nodes
    \/ /\ IdSeq(nodes') = IdSeq(nodes)
       /\ Cardinality({i \in DOMAIN nodes : nodes'[i] # nodes[i]}) = 1
    \/ /\ Len(nodes') = Len(nodes) - 1
       /\ IsSubsequence(IdSeq(nodes'), IdSeq(nodes))

SnapshotTotal ==
    [][(dirty /\ ~dirty') =>
          /\ nodes' = nodes
          /\ edges' = edges
          /\ Len(edges3d') = Len(edges)
          /\ \A i \in DOMAIN edges :
                /\ edges3d'[i].id = edges[i].id
                /\ edges3d'[i].source = edges[i].source
                /\ edges3d'[i].target = edges[i].target
                /\ IF edges[i].source \in Ids(nodes)
                   THEN \E j \in DOMAIN nodes :
                            /\ nodes[j].id = edges[i].source
                            /\ edges3d'[i].sourcePosition = nodes[j].position
                   ELSE edges3d'[i].sourcePosition = Pos(0, 0)
                /\ IF edges[i].target \in Ids(nodes)
                   THEN \E j \in DOMAIN nodes :
                            /\ nodes[j].id = edges[i].target
                            /\ edges3d'[i].targetPosition = nodes[j].position
                   ELSE edges3d'[i].targetPosition = Pos(0, 0)]_vars

\* rendered with node 1 at (50, 50) and node 2 gone from the node list: the
\* edge 1 -> 2 is still in the snapshot, from (50, 50) to (0, 0), and the
\* edge 1 -> 3 after it
SnapshotTotalWitness ==
    /\ ~dirty
    /\ "2" \notin Ids(nodes)
    /\ Len(edges) = 2
    /\ Len(edges3d) = 2
    /\ edges3d[1].id = "e1-2"
    /\ edges3d[1].sourcePosition = Pos(50, 50)
    /\ edges3d[1].targetPosition = Pos(0, 0)
    /\ edges3d[2].id = "e1-3"
    /\ edges3d[2].targetPosition = Pos(-100, 100)

====
